---- MODULE Spec2Model ----
(***************************************************************************)
(* Model of get_data_and_send.py: one run of main(), i.e. the HTTP GET,    *)
(* the status check, the row-by-row loop of parse_gmp_rows, the rendering  *)
(* of the HTML body in scrape_site and the call of send_email.             *)
(*                                                                         *)
(* A text is a sequence of tokens (words and whitespace tokens); a cell is *)
(* the sequence of the text nodes of a <th>/<td> element; a row is a       *)
(* record of its <th> cells and its <td> cells, as row.find_all returns    *)
(* them.  A dict is a sequence of [key, val] entries in insertion order.   *)
(***************************************************************************)
EXTENDS Naturals, Sequences, FiniteSets

VARIABLES pc, status_code, error, rows, i, sections, current_section,
          content_html, steps

vars == <<pc, status_code, error, rows, i, sections, current_section,
          content_html, steps>>

(* ------------------------------ bounds -------------------------------- *)

\* longest row sequence of a fetched page
MaxRows == 4

\* largest number of <td> cells of a row
MaxCells == 6

\* longest row sequence of a page that comes with a status other than 200
MaxErrorRows == 1

(* ------------------------- program constants --------------------------- *)

\* td_cells[4] is the highest cell read: a data row needs 5 cells
MinCells == 5

HTTP_FORBIDDEN == 403

(* ------------------------------- texts --------------------------------- *)

Whitespace == {" ", "\n"}

RECURSIVE lstrip(_)
lstrip(s) ==
    IF s = <<>> THEN <<>>
    ELSE IF Head(s) \in Whitespace THEN lstrip(Tail(s)) ELSE s

RECURSIVE rstrip(_)
rstrip(s) ==
    IF s = <<>> THEN <<>>
    ELSE IF s[Len(s)] \in Whitespace THEN rstrip(SubSeq(s, 1, Len(s) - 1)) ELSE s

\* str.strip()
strip(s) == rstrip(lstrip(s))

\* Tag.stripped_strings: every text node stripped, the empty ones left out
RECURSIVE stripped_strings(_)
stripped_strings(cell) ==
    IF cell = <<>> THEN <<>>
    ELSE IF strip(Head(cell)) = <<>> THEN stripped_strings(Tail(cell))
         ELSE <<strip(Head(cell))>> \o stripped_strings(Tail(cell))

RECURSIVE join(_)
join(strs) == IF strs = <<>> THEN <<>> ELSE Head(strs) \o join(Tail(strs))

\* Tag.get_text(strip=True): the stripped text nodes joined by ""
get_text(cell) == join(stripped_strings(cell))

(* ------------------------------- dicts --------------------------------- *)

Keys(d) == [k \in 1..Len(d) |-> d[k].key]

HasKey(d, key) == \E k \in 1..Len(d) : d[k].key = key

\* a mutation of setdefault: the entry of an existing key is reset
setdefault_reset(d, key) ==
    IF HasKey(d, key)
    THEN [k \in 1..Len(d) |-> IF d[k].key = key THEN [key |-> key, val |-> <<>>] ELSE d[k]]
    ELSE Append(d, [key |-> key, val |-> <<>>])

\* a mutation of setdefault: a new key is put in front of the others
setdefault_front(d, key) ==
    IF HasKey(d, key) THEN d ELSE <<[key |-> key, val |-> <<>>]>> \o d

\* sections.setdefault(current_section, [])
setdefault(d, key) ==
    IF HasKey(d, key) THEN d ELSE Append(d, [key |-> key, val |-> <<>>])

\* a mutation of append_row: the record goes to the first section
append_row_first(d, key, row_data) ==
    [k \in 1..Len(d) |->
        IF k = 1 THEN [key |-> d[k].key, val |-> Append(d[k].val, row_data)] ELSE d[k]]

\* sections[current_section].append(row_data)
append_row(d, key, row_data) ==
    [k \in 1..Len(d) |->
        IF d[k].key = key THEN [key |-> key, val |-> Append(d[k].val, row_data)]
        ELSE d[k]]

(* -------------------------- parse_gmp_rows ----------------------------- *)

\* Optional[str]: None is <<>>, a string s is <<s>>
None == <<>>

\* the dict built from a data row with at least MinCells cells
build_row_data(section, td_cells) ==
    LET parts == stripped_strings(td_cells[1])
    IN  [section     |-> section,
         name        |-> IF parts # <<>> THEN parts[1] ELSE <<>>,
         window      |-> IF Len(parts) > 1 THEN parts[2] ELSE <<>>,
         price       |-> get_text(td_cells[2]),
         gmp         |-> get_text(td_cells[3]),
         gmp_percent |-> get_text(td_cells[4]),
         subject_to  |-> get_text(td_cells[5])]

\* a mutation of skip_data_row: rows with more than MinCells cells are skipped too
skip_data_row_strict(td_cells, cur) ==
    td_cells = <<>> \/ cur = None \/ Len(td_cells) > MinCells

\* if not td_cells or current_section is None: continue
skip_data_row(td_cells, cur) == td_cells = <<>> \/ cur = None

\* a mutation of header_branch: the header text is not tested for emptiness
header_branch_unchecked(secs, cur, th_cells) ==
    LET header_text == get_text(th_cells[1])
    IN  [sections |-> setdefault(secs, header_text), current_section |-> <<header_text>>]

\* the body of "if th_cells:" up to its continue
header_branch(secs, cur, th_cells) ==
    LET header_text == get_text(th_cells[1])
    IN  IF header_text # <<>>
        THEN [sections |-> setdefault(secs, header_text),
              current_section |-> <<header_text>>]
        ELSE [sections |-> secs, current_section |-> cur]

\* the part of the loop body after the header branch
data_branch(secs, cur, td_cells) ==
    IF skip_data_row(td_cells, cur)
    THEN [sections |-> secs, current_section |-> cur, raised |-> FALSE]
    ELSE IF Len(td_cells) < MinCells
    THEN [sections |-> secs, current_section |-> cur, raised |-> TRUE]
    ELSE [sections |-> append_row(secs, cur[1], build_row_data(cur[1], td_cells)),
          current_section |-> cur, raised |-> FALSE]

\* a mutation of process_row: the header branch has no continue
process_row_fallthrough(secs, cur, row) ==
    IF row.th # <<>>
    THEN LET h == header_branch(secs, cur, row.th)
         IN  data_branch(h.sections, h.current_section, row.td)
    ELSE data_branch(secs, cur, row.td)

\* one iteration of "for row in rows"; raised is the IndexError of a missing cell
process_row(secs, cur, row) ==
    IF row.th # <<>>
    THEN LET h == header_branch(secs, cur, row.th)
         IN  [sections |-> h.sections, current_section |-> h.current_section,
              raised |-> FALSE]
    ELSE data_branch(secs, cur, row.td)

(* ---------------------------- scrape_site ------------------------------ *)

\* a mutation of is_blocked: 403 is not singled out
is_blocked_never(status) == FALSE

\* response.status_code == 403
is_blocked(status) == status = HTTP_FORBIDDEN

\* Response.raise_for_status() raises for the 4xx and 5xx statuses
raise_for_status(status) == 400 <= status /\ status < 600

Token(tag, cols) == [tag |-> tag, cols |-> cols]

NoBody == <<>>

BlockedMessage == <<Token("p-blocked", <<>>)>>

NoDataMessage == <<Token("p-no-data", <<>>)>>

render_row(ipo) ==
    Token("tr", <<ipo.name, ipo.window, ipo.price, ipo.gmp, ipo.gmp_percent,
                  ipo.subject_to>>)

render_section(entry) ==
    <<Token("h3", <<entry.key>>)>> \o
    ( IF entry.val = <<>>
      THEN <<Token("p-no-rows", <<>>)>>
      ELSE <<Token("table-head", <<>>)>> \o
           [k \in 1..Len(entry.val) |-> render_row(entry.val[k])] \o
           <<Token("table-end", <<>>)>> )

RECURSIVE render_sections(_)
render_sections(secs) ==
    IF secs = <<>> THEN <<>>
    ELSE render_section(Head(secs)) \o render_sections(Tail(secs))

\* a mutation of render_body: the empty mapping is rendered like any other
render_body_unguarded(secs) ==
    <<Token("html-open", <<>>), Token("h2", <<>>)>> \o render_sections(secs) \o
    <<Token("html-close", <<>>)>>

\* what scrape_site returns for the parsed sections
render_body(secs) ==
    IF secs = <<>> THEN NoDataMessage
    ELSE <<Token("html-open", <<>>), Token("h2", <<>>)>> \o render_sections(secs) \o
         <<Token("html-close", <<>>)>>

(* ------------------------------- inputs -------------------------------- *)

TH_SME == << <<"SME", " ", "IPO">> >>
TH_MAINBOARD == << <<"\n", "Mainboard", " ", "IPO", " ">> >>
TH_BLANK == << <<" ", "\n">> >>

TD_NAME_WINDOW == << <<"\n">>, <<"Acme", " ", "Corp">>, <<"\n">>, <<"(1 - 5 Jan)", " ">> >>
TD_NAME == << <<" ", "Beta">> >>

OtherCell(j) ==
    IF j = 2 THEN << <<"Rs100">> >>
    ELSE IF j = 3 THEN << <<" ", "Rs20">> >>
    ELSE IF j = 4 THEN << <<"20%">> >>
    ELSE IF j = 5 THEN << <<"Retail", "\n">> >>
    ELSE << <<"more">> >>

DataCells(first, n) == [j \in 1..n |-> IF j = 1 THEN first ELSE OtherCell(j)]

RowSet ==
    { [th |-> <<TH_SME>>, td |-> <<>>],
      [th |-> <<TH_MAINBOARD>>, td |-> <<>>],
      [th |-> <<TH_BLANK, TH_SME>>, td |-> <<>>],
      [th |-> <<TH_SME>>, td |-> DataCells(TD_NAME, MinCells)],
      [th |-> <<>>, td |-> <<>>],
      [th |-> <<>>, td |-> DataCells(TD_NAME_WINDOW, MinCells)],
      [th |-> <<>>, td |-> DataCells(TD_NAME, MaxCells)],
      [th |-> <<>>, td |-> DataCells(TD_NAME_WINDOW, MinCells - 1)] }

RowSeqs(n) == UNION { [1..k -> RowSet] : k \in 0..n }

Statuses == {200, 304, 403, 404, 500}

\* the row sequences "table tr" selects from the body of a response
Pages(status) == IF status = 200 THEN RowSeqs(MaxRows) ELSE RowSeqs(MaxErrorRows)

(* ------------------------------ the run -------------------------------- *)

Init ==
    /\ pc = "main"
    /\ status_code = 0
    /\ error = "none"
    /\ rows = <<>>
    /\ i = 0
    /\ sections = <<>>
    /\ current_section = None
    /\ content_html = NoBody
    /\ steps = <<>>

\* session.get raises: the run ends with the exception
GetFails ==
    /\ pc = "main"
    /\ pc' = "fatal"
    /\ error' = "RequestException"
    /\ steps' = Append(steps, "fetch")
    /\ UNCHANGED <<status_code, rows, i, sections, current_section, content_html>>

\* session.get returns a response
GetResponds ==
    /\ pc = "main"
    /\ \E st \in Statuses : \E page \in Pages(st) :
          /\ status_code' = st
          /\ rows' = page
    /\ pc' = "status"
    /\ steps' = Append(steps, "fetch")
    /\ UNCHANGED <<error, i, sections, current_section, content_html>>

\* status 403: scrape_site returns the placeholder
Blocked ==
    /\ pc = "status"
    /\ is_blocked(status_code)
    /\ content_html' = BlockedMessage
    /\ pc' = "send"
    /\ UNCHANGED <<status_code, error, rows, i, sections, current_section, steps>>

\* response.raise_for_status() raises
StatusRaises ==
    /\ pc = "status"
    /\ ~is_blocked(status_code)
    /\ raise_for_status(status_code)
    /\ pc' = "fatal"
    /\ error' = "HTTPError"
    /\ UNCHANGED <<status_code, rows, i, sections, current_section, content_html, steps>>

\* the rows are selected and parse_gmp_rows is entered
ParseEnter ==
    /\ pc = "status"
    /\ ~is_blocked(status_code)
    /\ ~raise_for_status(status_code)
    /\ pc' = "parse"
    /\ i' = 0
    /\ sections' = <<>>
    /\ current_section' = None
    /\ steps' = Append(steps, "parse")
    /\ UNCHANGED <<status_code, error, rows, content_html>>

\* one iteration of the loop of parse_gmp_rows, on rows[i + 1]
ParseRow ==
    /\ pc = "parse"
    /\ i < Len(rows)
    /\ LET r == process_row(sections, current_section, rows[i + 1])
       IN  /\ i' = i + 1
           /\ sections' = r.sections
           /\ current_section' = r.current_section
           /\ pc' = IF r.raised THEN "fatal" ELSE "parse"
           /\ error' = IF r.raised THEN "IndexError" ELSE error
    /\ UNCHANGED <<status_code, rows, content_html, steps>>

\* parse_gmp_rows returns sections
ParseReturn ==
    /\ pc = "parse"
    /\ i = Len(rows)
    /\ pc' = "render"
    /\ UNCHANGED <<status_code, error, rows, i, sections, current_section,
                   content_html, steps>>

\* scrape_site builds the body and returns it
Render ==
    /\ pc = "render"
    /\ content_html' = render_body(sections)
    /\ pc' = "send"
    /\ steps' = Append(steps, "render")
    /\ UNCHANGED <<status_code, error, rows, i, sections, current_section>>

\* send_email("Daily IPO GMP Summary", content_html): the SMTP session works or raises
SendEmail ==
    /\ pc = "send"
    /\ steps' = Append(steps, "deliver")
    /\ \/ pc' = "done" /\ error' = error
       \/ pc' = "fatal" /\ error' = "SMTPException"
    /\ UNCHANGED <<status_code, rows, i, sections, current_section, content_html>>

Next ==
    \/ GetFails
    \/ GetResponds
    \/ Blocked
    \/ StatusRaises
    \/ ParseEnter
    \/ ParseRow
    \/ ParseReturn
    \/ Render
    \/ SendEmail

Spec == Init /\ [][Next]_vars

(* ------------------- reading the input row sequence -------------------- *)

\* a header row: the row has header cells
IsHeaderRow(row) == row.th # <<>>

\* a data row: the row has data cells and no header cell
IsDataRow(row) == row.th = <<>> /\ row.td # <<>>

\* a header row that opens a section: its first header cell has non-empty trimmed text
OpensSection(row) == IsHeaderRow(row) /\ get_text(row.th[1]) # <<>>

HasMinCells(row) == Len(row.td) >= MinCells

Max(S) == CHOOSE n \in S : \A m \in S : m <= n

Min(S) == CHOOSE n \in S : \A m \in S : n <= m

\* the section opened by the most recent opening header among rs[1..n], as an Optional
LastOpened(rs, n) ==
    LET S == {k \in 1..n : OpensSection(rs[k])}
    IN  IF S = {} THEN None ELSE <<get_text(rs[Max(S)].th[1])>>

\* the data rows among rs[1..n] that produce a record under the section `key`
RecordRows(rs, n, key) ==
    {k \in 1..n : IsDataRow(rs[k]) /\ HasMinCells(rs[k]) /\ LastOpened(rs, k - 1) = <<key>>}

\* the first row among rs[1..n] whose header text is `key`
FirstHeader(rs, n, key) ==
    Min({k \in 1..n : OpensSection(rs[k]) /\ get_text(rs[k].th[1]) = key})

RECURSIVE InOrder(_, _, _)
\* the records of the rows of the index set S, in row order
InOrder(rs, S, key) ==
    IF S = {} THEN <<>>
    ELSE InOrder(rs, S \ {Max(S)}, key) \o <<build_row_data(key, rs[Max(S)].td)>>

RECURSIVE TotalRecords(_)
TotalRecords(secs) ==
    IF secs = <<>> THEN 0 ELSE Len(Head(secs).val) + TotalRecords(Tail(secs))

IsPrefix(s, t) == Len(s) <= Len(t) /\ SubSeq(t, 1, Len(s)) = s

\* the loop of parse_gmp_rows is about to process rows[i + 1]
AtRow == pc = "parse" /\ i < Len(rows)

\* parse_gmp_rows has returned its mapping
Returned == "parse" \in {steps[k] : k \in 1..Len(steps)} /\ pc \in {"render", "send", "done"}

Did(step) == \E k \in 1..Len(steps) : steps[k] = step

(* ------------------------------- claims -------------------------------- *)

\* C1: a data row changes no section but the one named by the most recent
\* preceding header row that set the current section, which gets at most the one
\* record built from that row appended; with no such header row the data row
\* leaves the mapping as it was.
C1_AppendOnlyToCurrent ==
    [][ (AtRow /\ IsDataRow(rows[i + 1])) =>
          LET cur == LastOpened(rows, i)
          IN  /\ Len(sections') = Len(sections)
              /\ cur = None => sections' = sections
              /\ \A k \in 1..Len(sections) :
                    /\ sections'[k].key = sections[k].key
                    /\ (cur = None \/ sections[k].key # cur[1])
                          => sections'[k].val = sections[k].val
                    /\ (cur # None /\ sections[k].key = cur[1])
                          => \/ sections'[k].val = sections[k].val /\ pc' = "fatal"
                             \/ sections'[k].val =
                                   Append(sections[k].val,
                                          build_row_data(cur[1], rows[i + 1].td)) ]_vars

\* C1 witness: [data_row, header_row("SME IPO"), data_row] has been parsed and the
\* mapping holds exactly one record, under "SME IPO".
C1_Witness ==
    /\ pc = "render"
    /\ Len(rows) = 3
    /\ IsDataRow(rows[1]) /\ HasMinCells(rows[1])
    /\ rows[2] = [th |-> <<TH_SME>>, td |-> <<>>]
    /\ IsDataRow(rows[3]) /\ HasMinCells(rows[3])
    /\ Keys(sections) = << <<"SME", " ", "IPO">> >>
    /\ Len(sections[1].val) = 1

\* C2 as stated: the total record count of the returned mapping equals the number
\* of data rows with the minimum cell count that follow at least one header row.
C2_Original ==
    Returned =>
        TotalRecords(sections) =
            Cardinality({k \in 1..Len(rows) :
                /\ IsDataRow(rows[k]) /\ HasMinCells(rows[k])
                /\ \E j \in 1..(k - 1) : IsHeaderRow(rows[j])})

\* C2 amended: at every point of the parse, and so for the returned mapping, the
\* total record count equals the number of processed data rows with the minimum
\* cell count that follow at least one header row with non-empty trimmed text.
C2_RecordCount ==
    TotalRecords(sections) =
        Cardinality({k \in 1..i :
            /\ IsDataRow(rows[k]) /\ HasMinCells(rows[k])
            /\ \E j \in 1..(k - 1) : OpensSection(rows[j])})

\* C2 witness: a mapping was returned for rows with a data row that has more than
\* the minimum cell count under a section, and a data row before any section.
C2_Witness ==
    /\ Returned
    /\ TotalRecords(sections) >= 1
    /\ \E k \in 1..Len(rows) : IsDataRow(rows[k]) /\ LastOpened(rows, k - 1) = None
    /\ \E k \in 1..Len(rows) :
          IsDataRow(rows[k]) /\ Len(rows[k].td) > MinCells /\ LastOpened(rows, k - 1) # None

\* C3 as stated: a data row with fewer than 5 data cells adds no record, keeps the
\* records collected so far, and parsing goes on with the following rows.
C3_ShortRowDropped ==
    [][ (AtRow /\ IsDataRow(rows[i + 1]) /\ ~HasMinCells(rows[i + 1])) =>
          (sections' = sections /\ pc' = "parse" /\ error' = error) ]_vars

\* C4: a header row whose text is already a key of the mapping leaves the mapping
\* as it is (no second entry, no reset) and makes that section current; no step of
\* the parse removes or reorders records a section already holds, so later data
\* rows come after them.
C4_IdempotentSection ==
    [][ (AtRow =>
            /\ Len(sections') >= Len(sections)
            /\ \A k \in 1..Len(sections) :
                  /\ sections'[k].key = sections[k].key
                  /\ IsPrefix(sections[k].val, sections'[k].val)
            /\ \A k, m \in 1..Len(sections') :
                  sections'[k].key = sections'[m].key => k = m)
        /\ ((AtRow /\ OpensSection(rows[i + 1])
                   /\ HasKey(sections, get_text(rows[i + 1].th[1]))) =>
              /\ sections' = sections
              /\ current_section' = <<get_text(rows[i + 1].th[1])>>) ]_vars

\* C4 witness: the section "SME IPO" held a record when its header came again, and
\* a later data row was appended after that record.
C4_Witness ==
    /\ pc = "parse"
    /\ i = 4
    /\ OpensSection(rows[1]) /\ OpensSection(rows[3])
    /\ get_text(rows[1].th[1]) = get_text(rows[3].th[1])
    /\ IsDataRow(rows[2]) /\ IsDataRow(rows[4])
    /\ rows[2] # rows[4]
    /\ Len(sections) = 1
    /\ sections[1].val = <<build_row_data(sections[1].key, rows[2].td),
                           build_row_data(sections[1].key, rows[4].td)>>

\* C5: the keys of the mapping are the header texts seen so far, each once, in the
\* order of their first appearance, and each section holds the records of its
\* data rows in row order.
C5_SectionOrder ==
    /\ \A k, m \in 1..Len(sections) : sections[k].key = sections[m].key => k = m
    /\ {sections[k].key : k \in 1..Len(sections)} =
          {get_text(rows[k].th[1]) : k \in {j \in 1..i : OpensSection(rows[j])}}
    /\ \A k, m \in 1..Len(sections) :
          k < m => FirstHeader(rows, i, sections[k].key) < FirstHeader(rows, i, sections[m].key)
    /\ \A k \in 1..Len(sections) :
          sections[k].val = InOrder(rows, RecordRows(rows, i, sections[k].key), sections[k].key)

\* C5 witness: "SME IPO" came before "Mainboard IPO", came again after it, and the
\* returned mapping lists "SME IPO" first.
C5_Witness ==
    /\ Returned
    /\ Len(rows) = 4
    /\ rows[1] = [th |-> <<TH_SME>>, td |-> <<>>]
    /\ rows[2] = [th |-> <<TH_MAINBOARD>>, td |-> <<>>]
    /\ rows[3] = [th |-> <<TH_SME>>, td |-> <<>>]
    /\ IsDataRow(rows[4])
    /\ Keys(sections) = << <<"SME", " ", "IPO">>, <<"Mainboard", " ", "IPO">> >>
    /\ Len(sections[1].val) = 1

\* C6: after a 403 response the run does not end at the fetch: the body is the
\* blocked placeholder, no row is parsed, and the only step after the fetch is the
\* one call of send_email with that body.
C6_BlockedStillDelivers ==
    (status_code = HTTP_FORBIDDEN) =>
        /\ pc \in {"status", "send", "done", "fatal"}
        /\ i = 0 /\ sections = <<>> /\ ~Did("parse") /\ ~Did("render")
        /\ pc # "status" => content_html = BlockedMessage
        /\ pc = "fatal" => error = "SMTPException"
        /\ pc \in {"done", "fatal"} => steps = <<"fetch", "deliver">>

\* C6 witness: a run with a 403 response has called send_email and ended normally.
C6_Witness ==
    /\ status_code = HTTP_FORBIDDEN
    /\ pc = "done"
    /\ rows # <<>>
    /\ steps = <<"fetch", "deliver">>

\* the steps made so far are in the order fetch, parse, render, deliver, each at
\* most once, and send_email is called only with a returned body
StepsInOrder ==
    /\ \E S \in SUBSET (1..4) :
          /\ Len(steps) = Cardinality(S)
          /\ \A k \in 1..Len(steps) :
                steps[k] = <<"fetch", "parse", "render", "deliver">>
                              [CHOOSE n \in S : Cardinality({m \in S : m <= n}) = k]
    /\ Did("deliver") => (content_html # NoBody /\ Did("fetch"))
    /\ (Did("render") => Did("parse")) /\ (Did("parse") => Did("fetch"))
    /\ error = "RequestException" => (pc = "fatal" /\ steps = <<"fetch">>)

\* C7: the steps happen in the order fetch, parse, render, deliver, each at most
\* once; send_email is never called before scrape_site returned a body; with any
\* non-success (non-2xx) status other than 403, or a failed request, the run ends
\* fatally without send_email.
C7_Original ==
    /\ StepsInOrder
    /\ (status_code # 0 /\ ~(200 <= status_code /\ status_code < 300)
          /\ status_code # HTTP_FORBIDDEN /\ pc # "status")
       => (pc = "fatal" /\ ~Did("deliver"))

\* the section names of the <h3> headings of a body, in order
Headings(body) ==
    LET h == SelectSeq(body, LAMBDA t : t.tag = "h3")
    IN  [k \in 1..Len(h) |-> h[k].cols[1]]

\* C8: a returned mapping is empty exactly when no header row with non-empty text
\* occurred (so for an empty row sequence); the body scrape_site builds from it is
\* the "no data" message exactly when the mapping is empty, and otherwise has one
\* heading per section, in mapping order.
C8_EmptyMapping ==
    /\ Returned => (sections = <<>> <=> ~\E k \in 1..Len(rows) : OpensSection(rows[k]))
    /\ (Returned /\ rows = <<>>) => sections = <<>>
    /\ Did("render") =>
          /\ sections = <<>> <=> content_html = NoDataMessage
          /\ sections # <<>> =>
                /\ Headings(content_html) = Keys(sections)
                /\ Head(content_html).tag = "html-open"

\* C8 witness: rows without an opening header row were parsed and the body is the
\* "no data" message.
C8_Witness ==
    /\ Did("render")
    /\ Len(rows) >= 2
    /\ \E k \in 1..Len(rows) : IsHeaderRow(rows[k])
    /\ \E k \in 1..Len(rows) : IsDataRow(rows[k]) /\ HasMinCells(rows[k])
    /\ content_html = NoDataMessage

\* C9: a row with header cells leaves the record list of every section as it was,
\* adds at most one section, with no record, and does not end the parse, whether
\* or not the row has data cells.
C9_HeaderRowNoRecord ==
    [][ (AtRow /\ IsHeaderRow(rows[i + 1])) =>
          /\ pc' = "parse"
          /\ Len(sections') \in {Len(sections), Len(sections) + 1}
          /\ \A k \in 1..Len(sections) : sections'[k] = sections[k]
          /\ \A k \in (Len(sections) + 1)..Len(sections') : sections'[k].val = <<>> ]_vars

\* C9 witness: a header row with five data cells was processed when its section
\* already held a record, and the section still holds that one record.
C9_Witness ==
    /\ pc = "parse"
    /\ i = 3
    /\ IsHeaderRow(rows[3]) /\ HasMinCells(rows[3])
    /\ IsDataRow(rows[2])
    /\ Len(sections) = 1
    /\ Len(sections[1].val) = 1

\* C10: a header row whose first header cell has empty trimmed text changes
\* neither the current section nor the mapping; throughout the parse the current
\* section is the one of the last header row with non-empty text, if any.
C10_EmptyHeaderIgnored ==
    [][ /\ (AtRow /\ IsHeaderRow(rows[i + 1]) /\ get_text(rows[i + 1].th[1]) = <<>>) =>
              (sections' = sections /\ current_section' = current_section /\ pc' = "parse")
        /\ pc' = "parse" => current_section' = LastOpened(rows', i') ]_vars

\* C10 witness: a header row with blank text came after a section was opened, and
\* the data row after it was appended to that section.
C10_Witness ==
    /\ pc = "parse"
    /\ i = 3
    /\ OpensSection(rows[1])
    /\ IsHeaderRow(rows[2]) /\ ~OpensSection(rows[2])
    /\ IsDataRow(rows[3])
    /\ Len(sections) = 1
    /\ Len(sections[1].val) = 1

====
